---- MODULE Spec2Model ----
(***************************************************************************)
(* fncache: the in-process TTL backend (memory.InMemoryCache) with its     *)
(* sweeper goroutine, and the cache-aside orchestrator (fncache.FnCache).  *)
(*                                                                         *)
(* Time is counted in the unit of time.Duration (an integer), so c.ttl / 2 *)
(* is integer division.  A weakly held value is a heap object with an      *)
(* identity (obj); the collector may reclaim it at any moment after Set    *)
(* has returned.  An object nothing points to any more gives its identity  *)
(* back, as a freed address does; identities are named after the key the   *)
(* object was stored under.                                                *)
(***************************************************************************)
EXTENDS Integers, FiniteSets, Sequences

\* ------------------------------------------------------------------ bounds
MaxTime == 3          \* the clock runs from 0 to MaxTime
MaxTTL  == 2          \* NewInMemoryCache is called with a ttl in 2..MaxTTL

Keys    == {"k1", "k2"}
Zero    == ""                      \* var zero FnReturns (FnReturns = string)
Values  == {Zero, "a"}
Clients == {"c1", "c2"}
Solo    == {"c1"}        \* the caller of the specifications with one caller
TTLs    == 2..MaxTTL
AnyTTLs == 1..MaxTTL     \* every ttl > 0 NewInMemoryCache accepts
Intervals == 0..MaxTTL   \* CacheConfig.CacheCheckInterval; 0 is unset

\* error values; None is the nil error
None         == "nil"
ErrMiss      == "cache miss"
ErrExpired   == "cache expired"
ErrCollected == "cache value collected"
ErrData      == "data source error"        \* an error of the caller's getFn
ErrWrite     == "write-through failed"     \* an error of the caller's setFn
ErrCanceled  == "context canceled"         \* context.Canceled
ErrNil       == "redis: nil"               \* redis.Nil: the key is not held
ErrConn      == "connection refused"       \* an error of the Redis client
ErrDecode    == "gob: decode failed"

\* run-time panics
NoPanic      == "none"
PanicClose   == "close of closed channel"
PanicTicker  == "non-positive interval for NewTicker"
PanicNilFunc == "nil pointer dereference"

VARIABLES
    ttl,        \* InMemoryCache.ttl
    cache,      \* InMemoryCache.cache (sync.Map): key -> entry or NoEntry
    done,       \* InMemoryCache.done is closed
    wg,         \* InMemoryCache.wg counter
    now,        \* time.Now()
    collected,  \* heap objects the collector has reclaimed
    ticker,     \* a tick is waiting in ticker.C (buffer of one)
    nextTick,   \* time at which the ticker sends its next tick (-1: no ticker)
    cleanerPc,  \* position of the cleaner goroutine
    sweepNow,   \* cleaner: now captured at the tick
    sweepTodo,  \* cleaner: keys Range has still to visit
    sweepKey,   \* cleaner: key whose callback is about to Delete
    sweepEntry, \* cleaner: the entry Range handed that callback
    pc,         \* position of each caller
    loaded,     \* per caller: key and entry loaded by Get (line 37)
    ret,        \* the call that returned in the last step (NoCall: none did)
    deleted,    \* history: per key, what the latest Delete found ("no": a Set
                \* has stored since, or Delete was never called)
    lastSet,    \* history: per key, the latest Set call that returned
    panicked,   \* the run-time panic the process died of (NoPanic: alive)
    getFn,      \* FnCache.getFn: "nil" or "fn"
    setFn,      \* FnCache.setFn: "nil" or "fn"
    fnPc,       \* position of the caller inside FnCache.Get / FnCache.Set
    fnCall,     \* the FnCache call in progress
    fnRet,      \* the FnCache call that returned in the last step
    redis,      \* the Redis server behind a RedisCache: key -> stored bytes
    checkInterval   \* CacheConfig.CacheCheckInterval given to NewFnCache

backendVars == <<ttl, cache, done, wg, now, collected, ticker, nextTick, cleanerPc,
                 sweepNow, sweepTodo, sweepKey, sweepEntry, pc, loaded, ret, deleted, lastSet,
                 panicked>>
fnVars == <<getFn, setFn, fnPc, fnCall, fnRet>>
extVars == <<redis, checkInterval>>
vars == <<backendVars, fnVars, extVars>>

\* ------------------------------------------------------------------ data
\* cacheEntry: the weak pointer is (value, obj); obj = NoObj marks "no entry".
cacheEntry(v, exp, o) == [value |-> v, expiresAt |-> exp, obj |-> o]
NoObj == <<"none", 0>>
NoEntry == cacheEntry(Zero, 0, NoObj)

\* per key: the object in the store, or one more for each running Get
Objs == {<<k, i>> : k \in Keys, i \in 1..(Cardinality(Clients) + 1)}

\* mutant: an expiry test that is late by one unit
AfterLate(t, u) == t > u + 1

\* time.Time.After
After(t, u) == t > u

NoCall == [op |-> "none", key |-> "k1", value |-> Zero, err |-> None,
           at |-> 0, entry |-> NoEntry, reclaimed |-> FALSE,
           afterDelete |-> "no", changed |-> FALSE,
           removed |-> NoEntry, othersKept |-> TRUE]
NoLoad == [key |-> "k1", entry |-> NoEntry, afterDelete |-> "no"]
NoSet  == [value |-> Zero, at |-> -1, obj |-> NoObj, reclaimed |-> FALSE]
NoPrev == [op |-> "none", key |-> "k1", kind |-> "none"]
\* a FnCache call: its arguments and results (op, key, value, err), and as
\* history the calls it made in order (log), what each gave back (c.cache.Get:
\* cacheErr, cacheVal; getFn: fnErr, fnVal; setFn: wtErr), the entry of the key
\* when it began (pre), whether its backend calls changed the store (changed)
\* and the FnCache call that returned right before it began (prev); ctx is
\* the state of its context, setErr what c.cache.Set gave back
NoFnCall == [op |-> "none", key |-> "k1", value |-> Zero, err |-> None,
             log |-> <<>>, cacheErr |-> None, cacheVal |-> Zero,
             fnErr |-> None, fnVal |-> Zero, wtErr |-> None,
             pre |-> NoEntry, changed |-> FALSE, prev |-> NoPrev,
             ctx |-> "live", setErr |-> None]

\* heap objects a running Get (positions p, loads ld) points to
Held(p, ld) == {ld[c].entry.obj : c \in {d \in Clients : p[d] = "Get_check"}}

\* a key Redis does not hold, and a Redis that holds none
NoData == <<>>
NoRedis == [k \in Keys |-> NoData]

\* heap objects a store ch or a running Get points to
Refs(ch, p, ld) == ({ch[k].obj : k \in Keys} \cup Held(p, ld)) \ {NoObj}

\* ------------------------------------------------------------------ Init
\* NewInMemoryCache, lines 26-32: the fields besides ttl, and go c.cleaner()
NewCacheFields ==
    /\ cache = [k \in Keys |-> NoEntry]
    /\ done = FALSE
    /\ wg = 1
    /\ cleanerPc = "start"
    /\ ticker = FALSE
    /\ nextTick = -1
    /\ sweepNow = 0
    /\ sweepTodo = {}
    /\ sweepKey = "k1"
    /\ sweepEntry = NoEntry

NewInMemoryCache == ttl \in TTLs /\ NewCacheFields

\* the run's clock, heap and callers when the backend is constructed
Run ==
    /\ now = 0
    /\ collected = {}
    /\ pc = [c \in Clients |-> "idle"]
    /\ loaded = [c \in Clients |-> NoLoad]
    /\ ret = NoCall
    /\ deleted = [k \in Keys |-> "no"]
    /\ lastSet = [k \in Keys |-> NoSet]
    /\ panicked = NoPanic

\* a backend just constructed
Backend == NewInMemoryCache /\ Run

Init ==
    /\ Backend
    /\ getFn = "fn"
    /\ setFn = "fn"
    /\ fnPc = "idle"
    /\ fnCall = NoFnCall
    /\ fnRet = NoFnCall
    /\ redis = NoRedis
    /\ checkInterval = 0

\* ------------------------------------------------------------ backend API
\* history: a step from store ch to store ch2 left every key but k alone
OthersKept(ch, ch2, k) == \A k2 \in Keys \ {k} : ch2[k2] = ch[k2]

\* Get, lines 37-40: c.cache.Load(params); a miss returns at once
GetLoad(c, k) ==
    /\ panicked = NoPanic
    /\ pc[c] = "idle"
    /\ IF cache[k] = NoEntry
       THEN /\ ret' = [NoCall EXCEPT !.op = "Get", !.key = k, !.value = Zero,
                                     !.err = ErrMiss, !.at = now,
                                     !.afterDelete = deleted[k]]
            /\ UNCHANGED <<pc, loaded>>
       ELSE /\ pc' = [pc EXCEPT ![c] = "Get_check"]
            /\ loaded' = [loaded EXCEPT ![c] = [key |-> k, entry |-> cache[k],
                                                afterDelete |-> deleted[k]]]
            /\ ret' = NoCall
    /\ UNCHANGED <<ttl, cache, done, wg, now, collected, ticker, nextTick,
                   cleanerPc, sweepNow, sweepTodo, sweepKey, sweepEntry, deleted, lastSet, panicked>>

\* mutant: a Get that does not look at the weak pointer
GetOutcomeExpiryOnly(e) == IF After(now, e.expiresAt) THEN ErrExpired ELSE None

\* the outcome of Get's lines 45-54 for the loaded entry e
GetOutcome(e) ==
    IF After(now, e.expiresAt) THEN ErrExpired
    ELSE IF e.obj \in collected THEN ErrCollected
    ELSE None

\* Get, lines 45-54: expiry test, weak pointer resolution, removal by key
GetCheck(c) ==
    /\ panicked = NoPanic
    /\ pc[c] = "Get_check"
    /\ LET k == loaded[c].key
           e == loaded[c].entry
           out == GetOutcome(e)
       IN /\ cache' = IF out = None THEN cache ELSE [cache EXCEPT ![k] = NoEntry]
          /\ ret' = [NoCall EXCEPT !.op = "Get", !.key = k,
                             !.value = IF out = None THEN e.value ELSE Zero,
                             !.err = out, !.at = now, !.entry = e,
                             !.reclaimed = (e.obj \in collected),
                             !.afterDelete = loaded[c].afterDelete,
                             !.changed = (cache' # cache),
                             !.removed = IF out = None THEN NoEntry ELSE cache[k],
                             !.othersKept = OthersKept(cache, cache', k)]
    /\ pc' = [pc EXCEPT ![c] = "idle"]
    /\ loaded' = [loaded EXCEPT ![c] = NoLoad]
    /\ collected' = collected \cap Refs(cache', pc', loaded')
    /\ UNCHANGED <<ttl, done, wg, now, ticker, nextTick, cleanerPc, sweepNow,
                   sweepTodo, sweepKey, sweepEntry, deleted, lastSet, panicked>>

\* Set, line 61: expiresAt: time.Now().Add(c.ttl)
SetExpiry == now + ttl

\* Set, lines 58-62: the entry Set builds around a fresh heap object o
SetEntry(v, o) == cacheEntry(v, SetExpiry, o)

\* Set, line 58: &value, a heap object nothing else points to
NewObj(k) ==
    <<k, CHOOSE i \in 1..(Cardinality(Clients) + 1) : <<k, i>> \notin Held(pc, loaded)>>

\* Set, lines 57-66
Set(c, k, v) ==
    /\ panicked = NoPanic
    /\ pc[c] = "idle"
    /\ LET o == NewObj(k)
       IN /\ cache' = [cache EXCEPT ![k] = SetEntry(v, o)]
          /\ ret' = [NoCall EXCEPT !.op = "Set", !.key = k, !.value = v,
                                   !.err = None, !.at = now,
                                   !.entry = cache'[k], !.removed = cache[k],
                                   !.othersKept = OthersKept(cache, cache', k)]
          /\ collected' = (collected \ {o}) \cap Refs(cache', pc, loaded)
    /\ UNCHANGED <<ttl, done, wg, now, ticker, nextTick, cleanerPc,
                   sweepNow, sweepTodo, sweepKey, sweepEntry, pc, loaded, panicked>>

\* history of a Set(k, v) that returns now: the call, and that no Delete(k)
\* has come after it
RecordSet(k, v) ==
    /\ lastSet' = [lastSet EXCEPT ![k] = [value |-> v, at |-> now, obj |-> NewObj(k),
                                          reclaimed |-> FALSE]]
    /\ deleted' = [deleted EXCEPT ![k] = "no"]

\* history of a Set(k, v) that returns now, kept when the Set replaced an
\* entry the store held under k
RecordOverwrite(k, v) ==
    /\ lastSet' = [lastSet EXCEPT ![k] = IF cache[k] = NoEntry THEN NoSet
                                         ELSE [value |-> v, at |-> now,
                                               obj |-> NewObj(k),
                                               reclaimed |-> FALSE]]
    /\ UNCHANGED deleted

\* a step of a specification that keeps no history of Set and Delete
NoRecord == UNCHANGED <<deleted, lastSet>>

\* mutant: a Delete that removes only entries that have expired
DeleteExpiredOnly(k) ==
    IF cache[k] # NoEntry /\ now > cache[k].expiresAt
    THEN [cache EXCEPT ![k] = NoEntry] ELSE cache

\* Delete, line 69: the store after c.cache.Delete(params)
DeleteStore(k) == [cache EXCEPT ![k] = NoEntry]

\* Delete, lines 68-70
Delete(c, k) ==
    /\ panicked = NoPanic
    /\ pc[c] = "idle"
    /\ cache' = DeleteStore(k)
    /\ ret' = [NoCall EXCEPT !.op = "Delete", !.key = k, !.at = now,
                             !.entry = cache[k],
                             !.changed = (cache' # cache)]
    /\ collected' = collected \cap Refs(cache', pc, loaded)
    /\ deleted' = [deleted EXCEPT ![k] =
                      IF cache[k] = NoEntry THEN "absent"
                      ELSE IF After(now, cache[k].expiresAt) THEN "expired"
                      ELSE "live"]
    /\ UNCHANGED <<ttl, done, wg, now, ticker, nextTick, cleanerPc, sweepNow,
                   sweepTodo, sweepKey, sweepEntry, pc, loaded, lastSet, panicked>>

\* Stop, line 73: close(c.done); closing a closed channel panics
StopClose(c) ==
    /\ panicked = NoPanic
    /\ pc[c] = "idle"
    /\ IF done
       THEN panicked' = PanicClose /\ UNCHANGED <<done, pc>>
       ELSE /\ done' = TRUE
            /\ pc' = [pc EXCEPT ![c] = "Stop_wait"]
            /\ UNCHANGED panicked
    /\ ret' = NoCall
    /\ UNCHANGED <<ttl, cache, wg, now, collected, ticker, nextTick, cleanerPc,
                   sweepNow, sweepTodo, sweepKey, sweepEntry, loaded, deleted, lastSet>>

\* mutant: a Stop that does not wait for the cleaner
WaitSkipped == TRUE

\* Stop, line 74: c.wg.Wait() returns
WaitDone == wg = 0

\* Stop, line 74: c.wg.Wait()
StopWait(c) ==
    /\ panicked = NoPanic
    /\ pc[c] = "Stop_wait"
    /\ WaitDone
    /\ pc' = [pc EXCEPT ![c] = "idle"]
    /\ ret' = [NoCall EXCEPT !.op = "Stop", !.at = now]
    /\ UNCHANGED <<ttl, cache, done, wg, now, collected, ticker, nextTick,
                   cleanerPc, sweepNow, sweepTodo, sweepKey, sweepEntry, loaded, deleted, lastSet,
                   panicked>>

\* ------------------------------------------------------------ the sweeper
\* cleaner, line 79: the ticker's period
Interval == ttl \div 2

\* cleaner, lines 78-80: the goroutine starts; NewTicker panics on a period <= 0
CleanerStart ==
    /\ panicked = NoPanic
    /\ cleanerPc = "start"
    /\ IF Interval <= 0
       THEN panicked' = PanicTicker /\ UNCHANGED <<cleanerPc, nextTick>>
       ELSE /\ cleanerPc' = "select"
            /\ nextTick' = now + Interval
            /\ UNCHANGED panicked
    /\ ret' = NoCall
    /\ UNCHANGED <<ttl, cache, done, wg, now, collected, ticker, sweepNow,
                   sweepTodo, sweepKey, sweepEntry, pc, loaded, deleted, lastSet>>

\* cleaner, lines 83-85: case <-ticker.C: now := time.Now(); Range begins
CleanerTick ==
    /\ panicked = NoPanic
    /\ cleanerPc = "select"
    /\ ticker
    /\ ticker' = FALSE
    /\ sweepNow' = now
    /\ sweepTodo' = Keys
    /\ cleanerPc' = "range"
    /\ ret' = NoCall
    /\ UNCHANGED <<ttl, cache, done, wg, now, collected, nextTick, sweepKey, sweepEntry,
                   pc, loaded, deleted, lastSet, panicked>>

\* mutant: a callback that finds no entry expired
SweepNothing(e) == FALSE

\* cleaner, line 86: the callback's test on the entry Range hands it
SweepExpired(e) == e # NoEntry /\ After(sweepNow, e.expiresAt)

\* cleaner, lines 85-86: Range visits one key and calls the callback
CleanerVisit(k) ==
    /\ panicked = NoPanic
    /\ cleanerPc = "range"
    /\ k \in sweepTodo
    /\ sweepTodo' = sweepTodo \ {k}
    /\ IF SweepExpired(cache[k])
       THEN cleanerPc' = "delete" /\ sweepKey' = k /\ sweepEntry' = cache[k]
       ELSE UNCHANGED <<cleanerPc, sweepKey, sweepEntry>>
    /\ ret' = NoCall
    /\ UNCHANGED <<ttl, cache, done, wg, now, collected, ticker, nextTick,
                   sweepNow, pc, loaded, deleted, lastSet, panicked>>

\* cleaner, line 87: c.cache.Delete(key)
CleanerDelete ==
    /\ panicked = NoPanic
    /\ cleanerPc = "delete"
    /\ cache' = [cache EXCEPT ![sweepKey] = NoEntry]
    /\ collected' = collected \cap Refs(cache', pc, loaded)
    /\ cleanerPc' = "range"
    /\ sweepKey' = "k1"
    /\ sweepEntry' = NoEntry
    /\ ret' = [NoCall EXCEPT !.op = "cleaner.Delete", !.key = sweepKey,
                             !.at = now, !.entry = sweepEntry,
                             !.removed = cache[sweepKey],
                             !.changed = (cache' # cache)]
    /\ UNCHANGED <<ttl, done, wg, now, ticker, nextTick, sweepNow, sweepTodo,
                   pc, loaded, deleted, lastSet, panicked>>

\* cleaner, line 90: Range has visited every key; back to the select
CleanerRangeDone ==
    /\ panicked = NoPanic
    /\ cleanerPc = "range"
    /\ sweepTodo = {}
    /\ cleanerPc' = "select"
    /\ sweepNow' = 0
    /\ ret' = NoCall
    /\ UNCHANGED <<ttl, cache, done, wg, now, collected, ticker, nextTick,
                   sweepTodo, sweepKey, sweepEntry, pc, loaded, deleted, lastSet, panicked>>

\* cleaner, lines 91-92 with the deferred ticker.Stop() and c.wg.Done()
CleanerDone ==
    /\ panicked = NoPanic
    /\ cleanerPc = "select"
    /\ done
    /\ cleanerPc' = "exited"
    /\ wg' = wg - 1
    /\ ticker' = FALSE
    /\ nextTick' = -1
    /\ ret' = NoCall
    /\ UNCHANGED <<ttl, cache, done, now, collected, sweepNow, sweepTodo,
                   sweepKey, sweepEntry, pc, loaded, deleted, lastSet, panicked>>

\* ------------------------------------------------------------ environment
\* the clock advances; a running ticker sends a tick when its period is up
Tick ==
    /\ panicked = NoPanic
    /\ now < MaxTime
    /\ now' = now + 1
    /\ IF nextTick = now + 1
       THEN ticker' = TRUE /\ nextTick' = nextTick + Interval
       ELSE UNCHANGED <<ticker, nextTick>>
    /\ ret' = NoCall
    /\ UNCHANGED <<ttl, cache, done, wg, collected, cleanerPc, sweepNow,
                   sweepTodo, sweepKey, sweepEntry, pc, loaded, deleted, lastSet, panicked>>

\* the collector reclaims a weakly held value (weak.Pointer.Value() turns nil)
Collect(o) ==
    /\ panicked = NoPanic
    /\ o \in Refs(cache, pc, loaded) \ collected
    /\ collected' = collected \cup {o}
    /\ ret' = NoCall
    /\ UNCHANGED <<ttl, cache, done, wg, now, ticker, nextTick, cleanerPc,
                   sweepNow, sweepTodo, sweepKey, sweepEntry, pc, loaded, panicked>>

\* history of the collector reclaiming o: the value of the latest Set is gone
RecordCollect(o) ==
    /\ lastSet' = [k \in Keys |-> IF lastSet[k].obj = o
                                  THEN [lastSet[k] EXCEPT !.reclaimed = TRUE]
                                  ELSE lastSet[k]]
    /\ UNCHANGED deleted

\* ------------------------------------------------------------ FnCache
\* The caller of FnCache is "c1"; c.cache is the InMemoryCache above.
FnCaller == "c1"

\* the results the caller's getFn may give: a value, or a value and an error
GetFnResults ==
    {[value |-> v, err |-> None] : v \in Values} \cup
    {[value |-> v, err |-> ErrData] : v \in Values}

\* the states of a context.Context
Ctxs == {"live", "canceled"}

\* the results of a getFn called with ctx: one that observes the cancellation
\* returns ctx.Err() and no value
GetFnResultsIn(ctx) ==
    GetFnResults \cup
    (IF ctx = "canceled" THEN {[value |-> Zero, err |-> ErrCanceled]} ELSE {})

\* the results the caller's setFn may give
SetFnResults == {None, ErrWrite}

\* mutant: a Get that takes no answer of the backend for a hit
CacheHitNever(err) == FALSE

\* FnCache.Get, line 42: if err == nil
CacheHit(err) == err = None

\* mutant: a Get that stores no result of getFn
ComputeNeverOk(err) == FALSE

\* mutant: a Get that stores the result of getFn whether it failed or not
ComputeAlwaysOk(err) == TRUE

\* FnCache.Get, line 48: if err == nil
ComputeOk(err) == err = None

\* FnCache.Set, line 56: if c.setFn == nil
SetFnAbsent == setFn = "nil"

\* mutant: a Set that goes on to the backend whatever setFn returned
SetFnErrorIgnored(err) == FALSE

\* mutant: a Set that writes the backend when setFn failed, not when it succeeded
SetFnFailedInverted(err) == err = None

\* FnCache.Set, line 61: if err != nil
SetFnFailed(err) == err # None

\* what the call r that just returned is to the call that begins now: a
\* FnCache.Get that served a value for its key, or one whose getFn failed
Outcome(r) ==
    IF r.op # "FnGet" THEN NoPrev
    ELSE [op |-> r.op, key |-> r.key,
          kind |-> IF r.err = None THEN "served" ELSE "failed"]

FnReturn(r) ==
    /\ fnRet' = r
    /\ fnPc' = "idle"
    /\ fnCall' = NoFnCall

FnGoOn(to, call) ==
    /\ fnPc' = to
    /\ fnCall' = call
    /\ fnRet' = NoFnCall

\* what c.cache.Get returned decides line 42: return the hit, or go on to getFn
FnGetAfterCache(call) ==
    IF ret'.op = "Get"
    THEN LET got == [call EXCEPT !.cacheErr = ret'.err, !.cacheVal = ret'.value,
                                 !.changed = ret'.changed]
         IN IF CacheHit(ret'.err)
            THEN FnReturn([got EXCEPT !.value = ret'.value, !.err = None])
            ELSE FnGoOn("Get_fn", got)
    ELSE FnGoOn("Get_cache", call)

\* FnCache.Get, line 41: c.cache.Get is called and looks the key up
FnGetCall(k) ==
    /\ fnPc = "idle"
    /\ GetLoad(FnCaller, k)
    /\ FnGetAfterCache([NoFnCall EXCEPT !.op = "FnGet", !.key = k,
                                        !.prev = Outcome(fnRet),
                                        !.log = <<"cache.Get">>, !.pre = cache[k]])
    /\ UNCHANGED <<getFn, setFn, extVars>>

\* FnCache.Get, lines 41-44: c.cache.Get returns
FnGetCache ==
    /\ fnPc = "Get_cache"
    /\ GetCheck(FnCaller)
    /\ FnGetAfterCache(fnCall)
    /\ UNCHANGED <<getFn, setFn, extVars>>

\* FnCache.Get, lines 46-52: c.getFn is called; a nil func panics
FnGetFn ==
    /\ panicked = NoPanic
    /\ fnPc = "Get_fn"
    /\ IF getFn = "nil"
       THEN /\ panicked' = PanicNilFunc
            /\ UNCHANGED <<fnPc, fnCall, fnRet>>
       ELSE /\ \E res \in GetFnResultsIn(fnCall.ctx) :
                 LET call == [fnCall EXCEPT !.value = res.value, !.err = res.err,
                                            !.fnVal = res.value, !.fnErr = res.err,
                                            !.log = Append(@, "getFn")]
                 IN IF ComputeOk(res.err)
                    THEN FnGoOn("Get_set", call)
                    ELSE FnReturn(call)
            /\ UNCHANGED panicked
    /\ ret' = NoCall
    /\ UNCHANGED <<ttl, cache, done, wg, now, collected, ticker, nextTick, cleanerPc,
                   sweepNow, sweepTodo, sweepKey, sweepEntry, pc, loaded, deleted, lastSet,
                   getFn, setFn, extVars>>

\* mutant: a Get that gives up the computed value when the backend's Set fails
SetResultZeroed(result, err) ==
    [value |-> IF err = None THEN result ELSE Zero, err |-> err]

\* FnCache.Get, lines 49-52: err = c.cache.Set(...); return result, err
SetResult(result, err) == [value |-> result, err |-> err]

\* FnCache.Get, lines 49-52: err = c.cache.Set(ctx, params, result); return
FnGetSet ==
    /\ fnPc = "Get_set"
    /\ Set(FnCaller, fnCall.key, fnCall.value)
    /\ NoRecord
    /\ LET out == SetResult(fnCall.value, ret'.err)
       IN FnReturn([fnCall EXCEPT !.value = out.value, !.err = out.err,
                                  !.setErr = ret'.err,
                                  !.log = Append(@, "cache.Set"),
                                  !.changed = TRUE])
    /\ UNCHANGED <<getFn, setFn, extVars>>

\* FnCache.Set, lines 56-63: without a setFn return nil; else call it
FnSetCall(k, v) ==
    /\ panicked = NoPanic
    /\ fnPc = "idle"
    /\ pc[FnCaller] = "idle"
    /\ LET call == [NoFnCall EXCEPT !.op = "FnSet", !.key = k, !.value = v,
                                    !.pre = cache[k]]
       IN IF SetFnAbsent
          THEN FnReturn(call)
          ELSE \E err \in SetFnResults :
                 LET called == [call EXCEPT !.err = err, !.wtErr = err,
                                            !.log = <<"setFn">>]
                 IN IF SetFnFailed(err)
                    THEN FnReturn(called)
                    ELSE FnGoOn("Set_cache", called)
    /\ ret' = NoCall
    /\ UNCHANGED <<ttl, cache, done, wg, now, collected, ticker, nextTick, cleanerPc,
                   sweepNow, sweepTodo, sweepKey, sweepEntry, pc, loaded, deleted, lastSet,
                   panicked, getFn, setFn, extVars>>

\* FnCache.Set, line 65: return c.cache.Set(ctx, params, value)
FnSetCache ==
    /\ fnPc = "Set_cache"
    /\ Set(FnCaller, fnCall.key, fnCall.value)
    /\ NoRecord
    /\ FnReturn([fnCall EXCEPT !.err = ret'.err, !.log = Append(@, "cache.Set"),
                               !.changed = TRUE])
    /\ UNCHANGED <<getFn, setFn, extVars>>

\* a step of the backend's own (sweeper, clock, collector) during FnCache's use
FnIdle == fnRet' = NoFnCall /\ UNCHANGED <<getFn, setFn, fnPc, fnCall, extVars>>

\* NewFnCache, lines 26-33: getFn and setFn are the caller's, either may be nil
NewFnCache ==
    /\ getFn \in {"nil", "fn"}
    /\ setFn \in {"nil", "fn"}
    /\ fnPc = "idle"
    /\ fnCall = NoFnCall
    /\ fnRet = NoFnCall

\* ------------------------------------------------------------- RedisCache
\* computeKey: the prefix and the hash of the printed key
computeKey(k) == <<"fn", k>>

\* the key of FnCache that a Redis key was computed from
ParamsOf(rk) == rk[2]

\* encode and decode: gob
encode(v) == <<"gob", v>>
decode(data) == IF Len(data) = 2 /\ data[1] = "gob"
                THEN [value |-> data[2], err |-> None]
                ELSE [value |-> Zero, err |-> ErrDecode]

\* what r.client.Get(ctx, key).Bytes() may give: the context's error when the
\* context is cancelled, a connection error, redis.Nil for a key Redis does
\* not hold, else the bytes
ClientGet(ctx, rk) ==
    (IF ctx = "canceled" THEN {[data |-> NoData, err |-> ErrCanceled]} ELSE {})
    \cup {[data |-> NoData, err |-> ErrConn]}
    \cup {IF redis[ParamsOf(rk)] = NoData THEN [data |-> NoData, err |-> ErrNil]
          ELSE [data |-> redis[ParamsOf(rk)], err |-> None]}

\* what r.client.Set(ctx, key, data, r.ttl).Err() may give
ClientSet(ctx) ==
    (IF ctx = "canceled" THEN {ErrCanceled} ELSE {}) \cup {ErrConn, None}

\* RedisCache.Get
RedisGet(ctx, k) ==
    /\ panicked = NoPanic
    /\ \E got \in ClientGet(ctx, computeKey(k)) :
         LET result == IF got.err # None THEN [value |-> Zero, err |-> got.err]
                       ELSE decode(got.data)
         IN ret' = [NoCall EXCEPT !.op = "Get", !.key = k,
                                  !.value = IF result.err = None
                                            THEN result.value ELSE Zero,
                                  !.err = result.err]
    /\ UNCHANGED <<ttl, cache, done, wg, now, collected, ticker, nextTick,
                   cleanerPc, sweepNow, sweepTodo, sweepKey, sweepEntry, pc, loaded, deleted,
                   lastSet, panicked, redis>>

\* RedisCache.Set: the key is stored when the client reports no error
RedisSet(ctx, k, v) ==
    /\ panicked = NoPanic
    /\ \E err \in ClientSet(ctx) :
         /\ ret' = [NoCall EXCEPT !.op = "Set", !.key = k, !.value = v,
                                  !.err = err]
         /\ redis' = IF err = None
                     THEN [redis EXCEPT ![ParamsOf(computeKey(k))] = encode(v)]
                     ELSE redis
    /\ UNCHANGED <<ttl, cache, done, wg, now, collected, ticker, nextTick,
                   cleanerPc, sweepNow, sweepTodo, sweepKey, sweepEntry, pc, loaded, deleted,
                   lastSet, panicked>>

\* the Redis server drops a key whose TTL has run out
RedisExpire(k) ==
    /\ panicked = NoPanic
    /\ redis[k] # NoData
    /\ redis' = [redis EXCEPT ![k] = NoData]
    /\ ret' = NoCall
    /\ UNCHANGED <<ttl, cache, done, wg, now, collected, ticker, nextTick,
                   cleanerPc, sweepNow, sweepTodo, sweepKey, sweepEntry, pc, loaded, deleted,
                   lastSet, panicked>>

\* FnCache.Get over a RedisCache, lines 41-44
FnGetRedis(ctx, k) ==
    /\ fnPc = "idle"
    /\ RedisGet(ctx, k)
    /\ FnGetAfterCache([NoFnCall EXCEPT !.op = "FnGet", !.key = k, !.ctx = ctx,
                                        !.prev = Outcome(fnRet),
                                        !.log = <<"cache.Get">>])
    /\ UNCHANGED <<getFn, setFn, checkInterval>>

\* FnCache.Get over a RedisCache, lines 49-52
FnGetSetRedis ==
    /\ fnPc = "Get_set"
    /\ RedisSet(fnCall.ctx, fnCall.key, fnCall.value)
    /\ LET out == SetResult(fnCall.value, ret'.err)
       IN FnReturn([fnCall EXCEPT !.value = out.value, !.err = out.err,
                                  !.setErr = ret'.err,
                                  !.log = Append(@, "cache.Set"),
                                  !.changed = (redis' # redis)])
    /\ UNCHANGED <<getFn, setFn, checkInterval>>

\* FnCache.Set over a RedisCache, line 65
FnSetRedis ==
    /\ fnPc = "Set_cache"
    /\ RedisSet(fnCall.ctx, fnCall.key, fnCall.value)
    /\ FnReturn([fnCall EXCEPT !.err = ret'.err, !.setErr = ret'.err,
                               !.log = Append(@, "cache.Set"),
                               !.changed = (redis' # redis)])
    /\ UNCHANGED <<getFn, setFn, checkInterval>>

\* ------------------------------------------------------------------ specs
\* the backend driven directly by a caller, beside its sweeper
Next ==
    \/ (\E c \in Solo, k \in Keys : GetLoad(c, k)) /\ UNCHANGED <<fnVars, extVars>>
    \/ (\E c \in Solo : GetCheck(c)) /\ UNCHANGED <<fnVars, extVars>>
    \/ (\E c \in Solo, k \in Keys, v \in Values : Set(c, k, v) /\ RecordSet(k, v))
          /\ UNCHANGED <<fnVars, extVars>>
    \/ (\E c \in Solo, k \in Keys : Delete(c, k)) /\ UNCHANGED <<fnVars, extVars>>
    \/ (\E c \in Solo : StopClose(c)) /\ UNCHANGED <<fnVars, extVars>>
    \/ (\E c \in Solo : StopWait(c)) /\ UNCHANGED <<fnVars, extVars>>
    \/ CleanerStart /\ UNCHANGED <<fnVars, extVars>>
    \/ CleanerTick /\ UNCHANGED <<fnVars, extVars>>
    \/ (\E k \in Keys : CleanerVisit(k)) /\ UNCHANGED <<fnVars, extVars>>
    \/ CleanerDelete /\ UNCHANGED <<fnVars, extVars>>
    \/ CleanerRangeDone /\ UNCHANGED <<fnVars, extVars>>
    \/ CleanerDone /\ UNCHANGED <<fnVars, extVars>>
    \/ Tick /\ UNCHANGED <<fnVars, extVars>>
    \/ (\E o \in Objs : Collect(o) /\ RecordCollect(o)) /\ UNCHANGED <<fnVars, extVars>>

Spec == Init /\ [][Next]_vars

\* FnCache driven by a caller over the backend, beside the backend's sweeper
FnInit == Backend /\ NewFnCache /\ redis = NoRedis /\ checkInterval = 0

FnNext ==
    \/ \E k \in Keys : FnGetCall(k)
    \/ FnGetCache
    \/ FnGetFn
    \/ FnGetSet
    \/ \E k \in Keys, v \in Values : FnSetCall(k, v)
    \/ FnSetCache
    \/ CleanerStart /\ FnIdle
    \/ CleanerTick /\ FnIdle
    \/ (\E k \in Keys : CleanerVisit(k)) /\ FnIdle
    \/ CleanerDelete /\ FnIdle
    \/ CleanerRangeDone /\ FnIdle
    \/ Tick /\ FnIdle
    \/ (\E o \in Objs : Collect(o)) /\ NoRecord /\ FnIdle

FnSpec == FnInit /\ [][FnNext]_vars

\* FnCache driven by a caller over a RedisCache
RedisNext ==
    \/ \E ctx \in Ctxs, k \in Keys : FnGetRedis(ctx, k)
    \/ FnGetFn
    \/ FnGetSetRedis
    \/ \E k \in Keys, v \in Values : FnSetCall(k, v)
    \/ FnSetRedis
    \/ (\E k \in Keys : RedisExpire(k)) /\ fnRet' = NoFnCall
          /\ UNCHANGED <<getFn, setFn, fnPc, fnCall, checkInterval>>

RedisSpec == FnInit /\ [][RedisNext]_vars

\* two callers of one backend: one calls Get while the other calls Set
Reader == "c1"
Writer == "c2"

RaceNext ==
    \/ (\E k \in Keys : GetLoad(Reader, k)) /\ UNCHANGED <<fnVars, extVars>>
    \/ GetCheck(Reader) /\ UNCHANGED <<fnVars, extVars>>
    \/ (\E k \in Keys, v \in Values : Set(Writer, k, v) /\ RecordSet(k, v))
          /\ UNCHANGED <<fnVars, extVars>>
    \/ Tick /\ UNCHANGED <<fnVars, extVars>>
    \/ (\E o \in Objs : Collect(o) /\ RecordCollect(o)) /\ UNCHANGED <<fnVars, extVars>>

RaceSpec == Init /\ [][RaceNext]_vars

\* one backend with a caller of Get and Set and a caller of Stop, the sweeper
\* and the clock; Stop is called once
LiveNext ==
    \/ (\E k \in Keys : GetLoad(Reader, k)) /\ UNCHANGED <<fnVars, extVars>>
    \/ GetCheck(Reader) /\ UNCHANGED <<fnVars, extVars>>
    \/ (\E k \in Keys, v \in Values : Set(Reader, k, v)) /\ NoRecord
          /\ UNCHANGED <<fnVars, extVars>>
    \/ (~done /\ StopClose(Writer)) /\ UNCHANGED <<fnVars, extVars>>
    \/ StopWait(Writer) /\ UNCHANGED <<fnVars, extVars>>
    \/ CleanerStart /\ UNCHANGED <<fnVars, extVars>>
    \/ CleanerTick /\ UNCHANGED <<fnVars, extVars>>
    \/ (\E k \in Keys : CleanerVisit(k)) /\ UNCHANGED <<fnVars, extVars>>
    \/ CleanerDelete /\ UNCHANGED <<fnVars, extVars>>
    \/ CleanerRangeDone /\ UNCHANGED <<fnVars, extVars>>
    \/ CleanerDone /\ UNCHANGED <<fnVars, extVars>>
    \/ Tick /\ UNCHANGED <<fnVars, extVars>>

\* the steps of the cleaner goroutine other than leaving on done
CleanerStep ==
    \/ CleanerStart
    \/ CleanerTick
    \/ \E k \in Keys : CleanerVisit(k)
    \/ CleanerDelete
    \/ CleanerRangeDone

\* the scheduler runs the cleaner goroutine and the goroutine blocked in
\* wg.Wait() when they can step, the clock advances, and the select of line
\* 82, which picks among its ready cases at random, does not pass over a
\* closed done for ever
LiveSpec ==
    /\ Init
    /\ [][LiveNext]_vars
    /\ WF_vars(CleanerStep /\ UNCHANGED <<fnVars, extVars>>)
    /\ SF_vars(CleanerDone /\ UNCHANGED <<fnVars, extVars>>)
    /\ WF_vars(StopWait(Writer) /\ UNCHANGED <<fnVars, extVars>>)
    /\ WF_vars(Tick /\ UNCHANGED <<fnVars, extVars>>)

\* one caller of Set and Get beside the sweeper, with the history of the Sets
\* that overwrote an entry
OverNext ==
    \/ (\E k \in Keys, v \in Values : Set(Reader, k, v) /\ RecordOverwrite(k, v))
          /\ UNCHANGED <<fnVars, extVars>>
    \/ (\E k \in Keys : GetLoad(Reader, k)) /\ UNCHANGED <<fnVars, extVars>>
    \/ GetCheck(Reader) /\ UNCHANGED <<fnVars, extVars>>
    \/ CleanerStart /\ UNCHANGED <<fnVars, extVars>>
    \/ CleanerTick /\ UNCHANGED <<fnVars, extVars>>
    \/ (\E k \in Keys : CleanerVisit(k)) /\ UNCHANGED <<fnVars, extVars>>
    \/ CleanerDelete /\ UNCHANGED <<fnVars, extVars>>
    \/ CleanerRangeDone /\ UNCHANGED <<fnVars, extVars>>
    \/ Tick /\ UNCHANGED <<fnVars, extVars>>

OverSpec == Init /\ [][OverNext]_vars

\* a backend constructed with any positive ttl for an FnCache whose CacheConfig
\* carries a CacheCheckInterval, with its sweeper, the clock and a caller of Set
CfgInit ==
    /\ ttl \in AnyTTLs
    /\ NewCacheFields
    /\ Run
    /\ getFn = "fn"
    /\ setFn = "fn"
    /\ fnPc = "idle"
    /\ fnCall = NoFnCall
    /\ fnRet = NoFnCall
    /\ redis = NoRedis
    /\ checkInterval \in Intervals

CfgNext ==
    \/ (\E k \in Keys, v \in Values : Set(Reader, k, v)) /\ NoRecord
          /\ UNCHANGED <<fnVars, extVars>>
    \/ CleanerStart /\ UNCHANGED <<fnVars, extVars>>
    \/ CleanerTick /\ UNCHANGED <<fnVars, extVars>>
    \/ (\E k \in Keys : CleanerVisit(k)) /\ UNCHANGED <<fnVars, extVars>>
    \/ CleanerDelete /\ UNCHANGED <<fnVars, extVars>>
    \/ CleanerRangeDone /\ UNCHANGED <<fnVars, extVars>>
    \/ Tick /\ UNCHANGED <<fnVars, extVars>>

CfgSpec == CfgInit /\ [][CfgNext]_vars

\* ------------------------------------------------------------------ claims
\* the latest Set on key k returned, and no Delete(k) was called since
SetStands(k) == lastSet[k] # NoSet /\ deleted[k] = "no"

\* C1: after Set(k, v) has returned, a Get(k) before the TTL has elapsed, with
\* no Set or Delete call on k in between and the value not reclaimed, returns
\* v and no error.
C1_RoundTrip ==
    (/\ ret.op = "Get"
     /\ SetStands(ret.key)
     /\ ret.at < lastSet[ret.key].at + ttl
     /\ ~lastSet[ret.key].reclaimed)
    => (ret.err = None /\ ret.value = lastSet[ret.key].value)

\* C1, as far as it holds: a Get that still finds the entry of the latest Set
\* in the store returns its value.
C1_RoundTripOfFoundEntry ==
    (/\ ret.op = "Get"
     /\ SetStands(ret.key)
     /\ ret.entry.obj = lastSet[ret.key].obj
     /\ ret.at < lastSet[ret.key].at + ttl
     /\ ~lastSet[ret.key].reclaimed)
    => (ret.err = None /\ ret.value = lastSet[ret.key].value)

\* C2: a Get(k) at a time later than t0 + ttl, where t0 is the time of the
\* latest Set on k, returns an error and the zero value, whatever the sweeper
\* or Stop have done meanwhile.
C2_ExpiredGetMisses ==
    (/\ ret.op = "Get"
     /\ lastSet[ret.key] # NoSet
     /\ ret.at > lastSet[ret.key].at + ttl)
    => (ret.err # None /\ ret.value = Zero)

\* C2 witness: the backend is stopped, the sweeper never removed the entry, and
\* the Get itself finds it expired.
C2_Witness ==
    /\ ret.op = "Get"
    /\ ret.err = ErrExpired
    /\ ret.at > lastSet[ret.key].at + ttl
    /\ cleanerPc = "exited"

\* C3: a Get(k) called after Delete(k) returned, with no Set on k in between,
\* returns the miss error; and a Delete of an absent key changes nothing and
\* does not panic.
C3_DeleteThenGetMisses ==
    /\ (ret.op = "Get" /\ ret.afterDelete # "no")
         => (ret.err = ErrMiss /\ ret.value = Zero)
    /\ (ret.op = "Delete" /\ ret.entry = NoEntry)
         => (~ret.changed /\ panicked = NoPanic)
    /\ ret.op = "Delete" => cache[ret.key] = NoEntry

\* C3 witness: the Delete removed an unexpired entry, and the Get misses.
C3_Witness ==
    /\ ret.op = "Get"
    /\ ret.afterDelete = "live"
    /\ ret.err = ErrMiss

\* r called f
Called(r, f) == \E i \in 1..Len(r.log) : r.log[i] = f

\* the errors of the backend's Get
BackendErrors == {ErrMiss, ErrExpired, ErrCollected}

\* the call r began right after a FnCache.Get of the same key returned as kind
Follows(r, kind) == r.prev = [op |-> "FnGet", key |-> r.key, kind |-> kind]

\* C4: when the backend's Get returns a value without error, FnCache.Get
\* returns that value, the one of the stored entry, with no error, and calls
\* neither getFn nor the backend's Set; so a Get that follows a Get which
\* served the same key, its entry still standing, does not compute again.
C4_HitPath ==
    (fnRet.op = "FnGet" /\ fnRet.cacheErr = None)
    => /\ fnRet.err = None
       /\ fnRet.value = fnRet.cacheVal
       /\ fnRet.value = fnRet.pre.value
       /\ fnRet.log = <<"cache.Get">>

\* C4 witness: a Get served "a" for the key, and the Get of the key that
\* follows it is served from the backend.
C4_Witness ==
    /\ fnRet.op = "FnGet"
    /\ fnRet.cacheErr = None
    /\ fnRet.value = "a"
    /\ Follows(fnRet, "served")

\* C5: when the backend's Get fails (miss, expired or collected), FnCache.Get
\* calls getFn once; when getFn returns r without error it calls the backend's
\* Set(k, r) once and returns r and no error, the backend then holding r for
\* the key with a fresh TTL; the backend's error is never what the caller gets.
C5_MissPath ==
    (fnRet.op = "FnGet" /\ fnRet.cacheErr # None)
    => /\ fnRet.cacheErr \in BackendErrors
       /\ SubSeq(fnRet.log, 1, 2) = <<"cache.Get", "getFn">>
       /\ fnRet.err \notin BackendErrors
       /\ fnRet.fnErr = None
            => /\ fnRet.log = <<"cache.Get", "getFn", "cache.Set">>
               /\ fnRet.err = None
               /\ fnRet.value = fnRet.fnVal
               /\ cache[fnRet.key].obj # NoObj
               /\ cache[fnRet.key].value = fnRet.fnVal
               /\ cache[fnRet.key].expiresAt = now + ttl

\* C5 witness: the backend's Get found the entry expired, getFn returned "a".
C5_Witness ==
    /\ fnRet.op = "FnGet"
    /\ fnRet.cacheErr = ErrExpired
    /\ fnRet.fnErr = None
    /\ fnRet.value = "a"
    /\ cache[fnRet.key].value = "a"

\* C6 as stated: when getFn fails with e, FnCache.Get returns e, does not call
\* the backend's Set, leaves the backend's state unchanged, and the next Get
\* of the key calls getFn again.
C6_NoNegativeCaching ==
    /\ (fnRet.op = "FnGet" /\ fnRet.fnErr # None)
         => /\ fnRet.err = fnRet.fnErr
            /\ ~Called(fnRet, "cache.Set")
            /\ ~fnRet.changed
    /\ (fnRet.op = "FnGet" /\ Follows(fnRet, "failed"))
         => Called(fnRet, "getFn")

\* C6 amended: when getFn fails with e, FnCache.Get returns e and calls the
\* backend's Set not at all, so nothing is written; the backend changes at
\* most by its own Get having removed the expired or reclaimed entry of the
\* key, no entry is left for the key, and the next Get of the key calls
\* getFn again.
C6_NoNegativeCachingAmended ==
    /\ (fnRet.op = "FnGet" /\ fnRet.fnErr # None)
         => /\ fnRet.err = fnRet.fnErr
            /\ fnRet.log = <<"cache.Get", "getFn">>
            /\ cache[fnRet.key] = NoEntry
            /\ fnRet.changed
                 => (fnRet.cacheErr \in {ErrExpired, ErrCollected}
                     /\ fnRet.pre # NoEntry)
    /\ (fnRet.op = "FnGet" /\ Follows(fnRet, "failed"))
         => (fnRet.cacheErr = ErrMiss /\ Called(fnRet, "getFn"))

\* C6 witness: getFn fails in a Get whose backend Get removed an expired entry.
C6_Witness ==
    /\ fnRet.op = "FnGet"
    /\ fnRet.fnErr = ErrData
    /\ fnRet.err = ErrData
    /\ fnRet.cacheErr = ErrExpired
    /\ fnRet.changed

\* the error C7 expects of a FnCache without getFn
ErrConfig == "configuration error"

\* C7: a FnCache built without getFn does not panic in Get on a miss of the
\* backend: it returns a configuration error, having called the backend's Get
\* and nothing else.
C7_NilComputeFn ==
    getFn = "nil"
    => /\ panicked # PanicNilFunc
       /\ (fnRet.op = "FnGet" /\ fnRet.cacheErr # None)
            => (fnRet.err = ErrConfig /\ fnRet.log = <<"cache.Get">>)

\* C8: a FnCache built without setFn stores Set(k, v) in the backend: it calls
\* the backend's Set, which then holds v for the key, and returns its result.
C8_NilWriteThroughFn ==
    (fnRet.op = "FnSet" /\ setFn = "nil")
    => /\ fnRet.log = <<"cache.Set">>
       /\ fnRet.err = None
       /\ cache[fnRet.key].obj # NoObj
       /\ cache[fnRet.key].value = fnRet.value

\* C9: when setFn fails, FnCache.Set returns its error, does not call the
\* backend's Set, and the backend's entry for the key is what it was before
\* the call.
C9_WriteThroughFailure ==
    (fnRet.op = "FnSet" /\ fnRet.wtErr # None)
    => /\ fnRet.err = fnRet.wtErr
       /\ fnRet.log = <<"setFn">>
       /\ ~fnRet.changed
       /\ cache[fnRet.key] = fnRet.pre

\* C9 witness: setFn fails for a key that holds an entry.
C9_Witness ==
    /\ fnRet.op = "FnSet"
    /\ fnRet.wtErr = ErrWrite
    /\ fnRet.err = ErrWrite
    /\ fnRet.pre # NoEntry
    /\ fnRet.value # fnRet.pre.value

\* C10: with a setFn, FnCache.Set calls setFn before the backend's Set and the
\* backend's Set only after setFn returned without error: a successful Set
\* made exactly these two calls in this order, and the backend is never
\* written by a Set whose setFn has not succeeded.
C10_WriteOrdering ==
    /\ (fnRet.op = "FnSet" /\ setFn # "nil")
         => /\ fnRet.log \in {<<"setFn">>, <<"setFn", "cache.Set">>}
            /\ Called(fnRet, "cache.Set") => fnRet.wtErr = None
            /\ fnRet.err = None
                 => /\ fnRet.log = <<"setFn", "cache.Set">>
                    /\ cache[fnRet.key].value = fnRet.value
    /\ fnPc = "Set_cache"
         => (fnCall.log = <<"setFn">> /\ fnCall.wtErr = None)

\* C10 witness: a Set with a setFn succeeded and replaced the entry of the key.
C10_Witness ==
    /\ fnRet.op = "FnSet"
    /\ setFn # "nil"
    /\ fnRet.err = None
    /\ fnRet.log = <<"setFn", "cache.Set">>
    /\ fnRet.pre # NoEntry
    /\ cache[fnRet.key].value = "a"

\* C11: when the backend's Get fails, getFn returns r without error and the
\* backend's Set fails with w, FnCache.Get returns r itself together with w,
\* having made the three calls in order; a Get that returns an error returns
\* getFn's error exactly when getFn failed, and then the backend's Set was not
\* called, else the error of the backend's Set.
C11_WriteAfterComputeFailure ==
    /\ (fnRet.op = "FnGet" /\ fnRet.cacheErr # None /\ fnRet.fnErr = None
           /\ fnRet.setErr # None)
         => /\ fnRet.value = fnRet.fnVal
            /\ fnRet.err = fnRet.setErr
            /\ fnRet.log = <<"cache.Get", "getFn", "cache.Set">>
    /\ (fnRet.op = "FnGet" /\ fnRet.err # None)
         => IF fnRet.fnErr # None
            THEN fnRet.err = fnRet.fnErr /\ ~Called(fnRet, "cache.Set")
            ELSE fnRet.err = fnRet.setErr /\ Called(fnRet, "cache.Set")

\* C11 witness: getFn returned "a", Redis refused the write, and Get returns
\* "a" with the error of the write; Redis holds nothing for the key.
C11_Witness ==
    /\ fnRet.op = "FnGet"
    /\ fnRet.fnErr = None
    /\ fnRet.fnVal = "a"
    /\ fnRet.setErr = ErrConn
    /\ fnRet.value = "a"
    /\ fnRet.err = ErrConn
    /\ redis[fnRet.key] = NoData

\* C12: the sweeper never removes an entry that has not expired: what its
\* Delete takes out of the store, if anything, is an entry with now >
\* expiresAt, so an entry a Set stored after the sweeper saw the old one
\* survives.
C12_SweeperKeepsFreshEntry ==
    (ret.op = "cleaner.Delete" /\ ret.removed # NoEntry)
    => After(ret.at, ret.removed.expiresAt)

\* C13: the removal step of a Get that found its entry expired or reclaimed
\* takes out of the store nothing but the entry it had loaded: an entry a
\* concurrent Set of another caller stored meanwhile stays, and a later Get
\* returns its value.
C13_GetKeepsNewerEntry ==
    (ret.op = "Get" /\ ret.err \in {ErrExpired, ErrCollected}
       /\ ret.removed # NoEntry)
    => ret.removed = ret.entry

\* the cleaner goroutine is between its start and its return
CleanerRunning == cleanerPc # "exited"

\* Stop has been called and has returned
StopReturned == done /\ pc[Writer] # "Stop_wait"

\* C14: a backend has one sweeper, running from construction; it leaves only
\* after Stop has closed done and never runs again; Stop, called once,
\* eventually returns, whatever the sweeper and the callers of Get and Set are
\* doing, and once it has returned the sweeper has exited, so that it scans and
\* removes nothing more.
C14_SweeperLifecycle ==
    /\ [](wg = (IF CleanerRunning THEN 1 ELSE 0))
    /\ [](~CleanerRunning => done)
    /\ [](StopReturned => ~CleanerRunning)
    /\ [][~CleanerRunning => ~CleanerRunning']_vars
    /\ [][(ret'.op = "cleaner.Delete" \/ cleanerPc' \in {"range", "delete"})
            => ~StopReturned]_vars
    /\ (pc[Writer] = "Stop_wait" ~> (ret.op = "Stop" /\ ~CleanerRunning))

\* C14 witness: Stop has returned and the sweeper has left its loop; an entry
\* that has expired is still in the store, and no pass will remove it.
C14_Witness ==
    /\ StopReturned
    /\ ~CleanerRunning
    /\ wg = 0
    /\ \E k \in Keys : cache[k] # NoEntry /\ After(now, cache[k].expiresAt)

\* FnCache.Get returned for a call made with a cancelled context in which the
\* backend's Get failed and getFn returned the context's error
CanceledGet(r) ==
    /\ r.op = "FnGet"
    /\ r.ctx = "canceled"
    /\ r.cacheErr # None
    /\ r.fnErr = ErrCanceled

\* C15: a Get whose context is already cancelled, whose backend Get misses and
\* whose getFn returns the context's error returns that error and no value,
\* cached or computed; it has called the backend's Get and getFn and nothing
\* else, the backend holds what it held, and the call cannot block at getFn.
C15_Cancellation ==
    /\ [](CanceledGet(fnRet)
            => /\ fnRet.err = ErrCanceled
               /\ fnRet.value = Zero
               /\ fnRet.log = <<"cache.Get", "getFn">>)
    /\ []((fnPc = "Get_fn" /\ getFn # "nil") => ENABLED FnGetFn)
    /\ [][CanceledGet(fnRet') => (redis' = redis /\ cache' = cache)]_vars

\* C15 witness: Redis holds "a" for the key, the context is cancelled, and Get
\* has returned the context's error with the zero value.
C15_Witness ==
    /\ CanceledGet(fnRet)
    /\ redis[fnRet.key] = encode("a")
    /\ fnRet.err = ErrCanceled
    /\ fnRet.value = Zero

\* Get returned r after it had found an entry under the key
GetFound(r) == r.op = "Get" /\ r.entry # NoEntry

\* C16: Get on an absent key returns the miss error and changes nothing; on an
\* entry with now > expiresAt it removes the key and returns the expired error;
\* on an unexpired entry whose value was reclaimed it removes the key and
\* returns the reclaimed error; on a live entry it returns the value and
\* removes nothing; no Get touches another key, and a Get of the same key
\* right after an expired or reclaimed result returns the plain miss.
C16_GetOutcomes ==
    /\ []((ret.op = "Get" /\ ret.entry = NoEntry)
            => /\ ret.err = ErrMiss
               /\ ret.value = Zero
               /\ ~ret.changed
               /\ cache[ret.key] = NoEntry)
    /\ []((GetFound(ret) /\ After(ret.at, ret.entry.expiresAt))
            => /\ ret.err = ErrExpired
               /\ ret.value = Zero
               /\ cache[ret.key] = NoEntry)
    /\ []((GetFound(ret) /\ ~After(ret.at, ret.entry.expiresAt) /\ ret.reclaimed)
            => /\ ret.err = ErrCollected
               /\ ret.value = Zero
               /\ cache[ret.key] = NoEntry)
    /\ []((GetFound(ret) /\ ~After(ret.at, ret.entry.expiresAt) /\ ~ret.reclaimed)
            => /\ ret.err = None
               /\ ret.value = ret.entry.value
               /\ ~ret.changed)
    /\ [](ret.op = "Get" => ret.othersKept)
    /\ [][(/\ ret.op = "Get"
            /\ ret.err \in {ErrExpired, ErrCollected}
            /\ ret'.op = "Get"
            /\ ret'.key = ret.key)
           => ret'.err = ErrMiss]_vars

\* C16 witness: a Get found an unexpired entry whose value had been reclaimed,
\* returned the reclaimed error and took the entry out of the store.
C16_Witness ==
    /\ GetFound(ret)
    /\ ~After(ret.at, ret.entry.expiresAt)
    /\ ret.reclaimed
    /\ ret.err = ErrCollected
    /\ ret.removed = ret.entry
    /\ cache[ret.key] = NoEntry

\* the entry under k has expired and is still in the store
Stale(k) == cache[k] # NoEntry /\ After(now, cache[k].expiresAt)

\* the ticker of a running sweeper has a tick waiting, or sends one before the
\* clock reaches its bound
TickToCome == ticker \/ (now < nextTick /\ nextTick <= MaxTime)

\* C17: while the sweeper runs and its ticker goes on ticking, an entry that
\* has expired leaves the store, by a pass of the sweeper if nothing else
\* removes or overwrites it, whether or not a Get is issued for its key. A
\* pass that no writer disturbs removes only entries with now > expiresAt, for
\* the now it read at its start, and when Range has visited every key no entry
\* with now > expiresAt is left.
C17_AutomaticCleanup ==
    /\ \A k \in Keys :
         (Stale(k) /\ ~done /\ TickToCome) ~> (~Stale(k) \/ done)
    /\ [](cleanerPc = "delete" => SweepExpired(sweepEntry))
    /\ []((ret.op = "cleaner.Delete" /\ ret.removed = ret.entry)
            => /\ ret.removed # NoEntry
               /\ After(sweepNow, ret.removed.expiresAt))
    /\ [](cleanerPc = "range"
            => \A k \in Keys \ sweepTodo : ~SweepExpired(cache[k]))
    /\ [][\A k \in Keys :
            (cleanerPc = "range" /\ k \in sweepTodo /\ k \notin sweepTodo'
               /\ cache[k] # NoEntry /\ ~After(sweepNow, cache[k].expiresAt))
            => (cleanerPc' = "range" /\ cache'[k] = cache[k])]_vars

\* C17 witness: with no Get under way, the sweeper has just removed the
\* expired entry its callback was handed.
C17_Witness ==
    /\ ret.op = "cleaner.Delete"
    /\ ret.entry # NoEntry
    /\ ret.removed = ret.entry
    /\ After(sweepNow, ret.entry.expiresAt)
    /\ cache[ret.key] = NoEntry
    /\ ~done
    /\ pc[Reader] = "idle"

\* C18: a Set on a key that holds an entry replaces it: the store then holds
\* the one entry the Set built, with the new value and with expiresAt the time
\* of this Set plus the ttl, and a Get of the key after that, up to the new
\* expiresAt, returns the new value and no error.
C18_Overwrite ==
    /\ (ret.op = "Set" /\ ret.removed # NoEntry)
         => /\ cache[ret.key] = ret.entry
            /\ ret.entry.value = ret.value
            /\ ret.entry.expiresAt = ret.at + ttl
    /\ (ret.op = "Get" /\ lastSet[ret.key] # NoSet
           /\ ~After(ret.at, lastSet[ret.key].at + ttl))
         => (ret.err = None /\ ret.value = lastSet[ret.key].value)

\* a Stop has closed done, and no Stop is still waiting for the sweeper
Stopped == done /\ \A c \in Clients : pc[c] # "Stop_wait"

\* C19: once a first Stop has returned, a call of Stop, Get, Set or Delete
\* completes without crashing: the program has not panicked; and a Get that
\* then finds an entry returns its value up to expiresAt and an error after.
C19_StopAgainIsSafe ==
    /\ Stopped => panicked = NoPanic
    /\ (Stopped /\ GetFound(ret))
         => IF After(ret.at, ret.entry.expiresAt) \/ ret.reclaimed
            THEN ret.err # None /\ ret.value = Zero
            ELSE ret.err = None /\ ret.value = ret.entry.value

\* the period the configuration asks for: CacheCheckInterval when it is
\* positive, else half the ttl
ConfiguredPeriod == IF checkInterval > 0 THEN checkInterval ELSE ttl \div 2

\* C20: for every ttl > 0 construction starts a working sweeper, NewTicker
\* does not panic, and the ticker the sweeper starts has the period the
\* configuration asks for: its first tick is due that long after the start.
C20_SweepInterval ==
    /\ [](panicked # PanicTicker)
    /\ [][(cleanerPc = "start" /\ cleanerPc' = "select")
            => (nextTick' - now = ConfiguredPeriod /\ ConfiguredPeriod > 0)]_vars

\* C20, the first part alone: the period of a sweeper that starts
C20_PeriodAsConfigured ==
    [][(cleanerPc = "start" /\ cleanerPc' = "select")
        => nextTick' - now = ConfiguredPeriod]_vars

\* C20, the second part alone: NewTicker gets a positive period
C20_PeriodPositive == panicked # PanicTicker

====
